---- MODULE Spec2Model ----
(***************************************************************************)
(* Model of the tokenization package: Vocabulary, the Tokenizer base       *)
(* class with its greedy encode / concatenating decode, BytePairEncoding,  *)
(* WordPiece, UnigramLanguageModeling and the stand-alone SimpleTokenizer. *)
(*                                                                         *)
(* A Python str is a sequence of one-character strings, a token is a str,  *)
(* a value that may be None is the set None == {} or Some(v) == {v}; the   *)
(* ids of a vocabulary and the value a call returned are such values.      *)
(***************************************************************************)
EXTENDS Integers, Sequences, FiniteSets, TLC

VARIABLES
    cls,             \* class of the object under test
    max_size,        \* Vocabulary.max_size
    UNKNOWN_ID,      \* Vocabulary.UNKNOWN_ID        (None until build)
    PADDING_ID,      \* Vocabulary.PADDING_ID        (None until build)
    BEGIN_OF_SEQ_ID, \* Vocabulary.BEGIN_OF_SEQ_ID   (None until build)
    END_OF_SEQ_ID,   \* Vocabulary.END_OF_SEQ_ID     (None until build)
    token_2_id_map,  \* dict token -> id
    id_2_token_map,  \* dict id -> token
    max_num_merges,  \* max_num_merges of a BytePairEncoding or WordPiece (None elsewhere)
    frame,           \* the locals of a WordPiece.segment call under way, None
                     \* when no call is under way
    call,            \* the last call made on the object: [op, arg]
    returned,        \* what that call returned
    raised           \* the exception that call raised, NoException if none

vars == <<cls, max_size, UNKNOWN_ID, PADDING_ID, BEGIN_OF_SEQ_ID, END_OF_SEQ_ID,
          token_2_id_map, id_2_token_map, max_num_merges, frame, call, returned,
          raised>>

vocabVars == <<UNKNOWN_ID, PADDING_ID, BEGIN_OF_SEQ_ID, END_OF_SEQ_ID,
               token_2_id_map, id_2_token_map>>

-----------------------------------------------------------------------------
(* Python values *)

None == {}
Some(v) == {v}
The(o) == CHOOSE v \in o : TRUE

NoException == "NoException"

Range(f) == {f[x] : x \in DOMAIN f}

Min(a, b) == IF a < b THEN a ELSE b
Max(a, b) == IF a > b THEN a ELSE b

EmptyDict == [k \in {} |-> None]

\* Code point 96, the grave accent (the character cannot be written in a
\* string literal of this language).
Grave == "GRAVE"

\* The printable ASCII characters in code-point order, starting at 32.
Ascii ==
    <<" ", "!", "\"", "#", "$", "%", "&", "'", "(", ")", "*", "+", ",", "-", ".", "/",
      "0", "1", "2", "3", "4", "5", "6", "7", "8", "9", ":", ";", "<", "=", ">", "?",
      "@", "A", "B", "C", "D", "E", "F", "G", "H", "I", "J", "K", "L", "M", "N", "O",
      "P", "Q", "R", "S", "T", "U", "V", "W", "X", "Y", "Z", "[", "\\", "]", "^", "_",
      Grave, "a", "b", "c", "d", "e", "f", "g", "h", "i", "j", "k", "l", "m", "n", "o",
      "p", "q", "r", "s", "t", "u", "v", "w", "x", "y", "z", "{", "|", "}", "~">>

CodePoint == [c \in Range(Ascii) |-> 31 + (CHOOSE i \in DOMAIN Ascii : Ascii[i] = c)]

\* ord(c)
Code(c) == CodePoint[c]

\* s < t on Python strings: lexicographic by code point.
StrLess(s, t) ==
    \E i \in 1..Len(t) :
        /\ i <= Len(s) + 1
        /\ \A j \in 1..(i - 1) : s[j] = t[j]
        /\ \/ i = Len(s) + 1
           \/ Code(s[i]) < Code(t[i])

\* Sorted with the order reversed: greatest first
RECURSIVE Sorted_descending(_)
Sorted_descending(S) ==
    IF S = {} THEN <<>>
    ELSE LET greatest == CHOOSE x \in S : \A y \in S \ {x} : StrLess(y, x)
         IN  <<greatest>> \o Sorted_descending(S \ {greatest})

\* sorted(S) for a set S of strings
RECURSIVE Sorted(_)
Sorted(S) ==
    IF S = {} THEN <<>>
    ELSE LET least == CHOOSE x \in S : \A y \in S \ {x} : StrLess(x, y)
         IN  <<least>> \o Sorted(S \ {least})

\* seq[:stop] with Python's treatment of a negative or too large stop
SliceTo(seq, stop) ==
    LET n == Len(seq)
        end == IF stop < 0 THEN Max(stop + n, 0) ELSE Min(stop, n)
    IN  SubSeq(seq, 1, end)

\* ''.join(tokens)
RECURSIVE Join(_)
Join(tokens) ==
    IF tokens = <<>> THEN <<>> ELSE Head(tokens) \o Join(Tail(tokens))

-----------------------------------------------------------------------------
(* Vocabulary *)

UNKNOWN_TOKEN == <<"<", "U", "N", "K", ">">>
PADDING_TOKEN == <<"<", "P", "A", "D", ">">>
BEGIN_OF_SEQ_TOKEN == <<"<", "B", "O", "S", ">">>
END_OF_SEQ_TOKEN == <<"<", "E", "O", "S", ">">>

special_tokens == <<UNKNOWN_TOKEN, PADDING_TOKEN, BEGIN_OF_SEQ_TOKEN, END_OF_SEQ_TOKEN>>

\* unique_tokens without the removal of the special tokens
unique_tokens_keeps_specials(tokens) == Sorted(Range(tokens))

\* unique_tokens = sorted(set(tokens) - set(special_tokens))
unique_tokens(tokens) == Sorted(Range(tokens) \ Range(special_tokens))

\* limited_tokens cut at max_size, the room of the special tokens not deducted
limited_tokens_no_room_for_specials(tokens, size) ==
    SliceTo(unique_tokens(tokens), size)

\* limited_tokens = unique_tokens[:self.max_size - len(special_tokens)]
limited_tokens(tokens, size) ==
    SliceTo(unique_tokens(tokens), size - Len(special_tokens))

\* all_tokens = special_tokens + limited_tokens
all_tokens(tokens, size) == special_tokens \o limited_tokens(tokens, size)

\* {token: id for id, token in enumerate(seq)}: a repeated key keeps its last id
Enumerate(seq) ==
    [token \in Range(seq) |->
        Some((CHOOSE i \in DOMAIN seq :
                 /\ seq[i] = token
                 /\ \A j \in DOMAIN seq : seq[j] = token => j <= i) - 1)]

\* {id: token for token, id in d.items()}, d one-to-one
Inverse(d) == [id \in Range(d) |-> CHOOSE token \in DOMAIN d : d[token] = id]

\* dict.get(key, default)
DictGet(d, key, default) == IF key \in DOMAIN d THEN d[key] ELSE default

\* get_id with the default of dict.get left out
get_id_without_default(token) == DictGet(token_2_id_map, token, None)

\* Vocabulary.get_id
get_id(token) == DictGet(token_2_id_map, token, UNKNOWN_ID)

\* Vocabulary.get_token
get_token(id) == DictGet(id_2_token_map, id, UNKNOWN_TOKEN)

\* Vocabulary.__len__
VocabLen == Cardinality(DOMAIN token_2_id_map)

\* Vocabulary.build: the vocabulary that build(tokens) leaves, as the record of
\* the six attributes it assigns
BuiltVocabulary(arg, size) ==
    LET tokens == IF arg = None THEN <<>> ELSE The(arg)
        t2i == Enumerate(all_tokens(tokens, size))
    IN  [token_2_id_map |-> t2i,
         id_2_token_map |-> Inverse(t2i),
         UNKNOWN_ID |-> t2i[UNKNOWN_TOKEN],
         PADDING_ID |-> t2i[PADDING_TOKEN],
         BEGIN_OF_SEQ_ID |-> t2i[BEGIN_OF_SEQ_TOKEN],
         END_OF_SEQ_ID |-> t2i[END_OF_SEQ_TOKEN]]

\* self.vocab.build(tokens) as a state change
AssignVocabulary(v) ==
    /\ token_2_id_map' = v.token_2_id_map
    /\ id_2_token_map' = v.id_2_token_map
    /\ UNKNOWN_ID' = v.UNKNOWN_ID
    /\ PADDING_ID' = v.PADDING_ID
    /\ BEGIN_OF_SEQ_ID' = v.BEGIN_OF_SEQ_ID
    /\ END_OF_SEQ_ID' = v.END_OF_SEQ_ID

\* Vocabulary.__init__: the attributes of a vocabulary nobody has built
EmptyVocabulary ==
    /\ UNKNOWN_ID = None
    /\ PADDING_ID = None
    /\ BEGIN_OF_SEQ_ID = None
    /\ END_OF_SEQ_ID = None
    /\ token_2_id_map = EmptyDict
    /\ id_2_token_map = EmptyDict

-----------------------------------------------------------------------------
(* Bounds and inputs *)

MaxSizeBound == 6    \* Vocabulary(max_size = m) for m in 0..MaxSizeBound
MaxTokens == 3       \* build(tokens) with len(tokens) <= MaxTokens

\* Vocabulary() default
DefaultMaxSize == 10000

\* '' < 'B' < 'a' < 'ab', and one string that is a special token
Tokens == {<<>>, <<"B">>, <<"a">>, <<"a", "b">>, UNKNOWN_TOKEN}

SeqsUpTo(S, n) == UNION {[1..k -> S] : k \in 0..n}

TokenLists == SeqsUpTo(Tokens, MaxTokens)

BuildArgs == {None} \cup {Some(tokens) : tokens \in TokenLists}

LookupTokens == Tokens \cup {PADDING_TOKEN, <<"z">>}

LookupIds == {None} \cup {Some(i) : i \in (0 - 1)..(MaxSizeBound + 1)}

-----------------------------------------------------------------------------
(* Vocabulary used on its own *)

InitVocabulary ==
    /\ cls = "Vocabulary"
    /\ max_size \in 0..MaxSizeBound
    /\ EmptyVocabulary
    /\ max_num_merges = None
    /\ call = [op |-> "__init__", arg |-> Some(max_size)]
    /\ frame = None
    /\ returned = None
    /\ raised = NoException

Vocabulary_build(arg) ==
    /\ AssignVocabulary(BuiltVocabulary(arg, max_size))
    /\ call' = [op |-> "build", arg |-> arg]
    /\ returned' = None
    /\ raised' = NoException
    /\ UNCHANGED <<cls, max_size, max_num_merges, frame>>

Vocabulary_get_id(token) ==
    /\ call' = [op |-> "get_id", arg |-> token]
    /\ returned' = get_id(token)
    /\ raised' = NoException
    /\ UNCHANGED <<cls, max_size, max_num_merges, frame, vocabVars>>

Vocabulary_get_token(id) ==
    /\ call' = [op |-> "get_token", arg |-> id]
    /\ returned' = Some(get_token(id))
    /\ raised' = NoException
    /\ UNCHANGED <<cls, max_size, max_num_merges, frame, vocabVars>>

Vocabulary_len ==
    /\ call' = [op |-> "__len__", arg |-> None]
    /\ returned' = Some(VocabLen)
    /\ raised' = NoException
    /\ UNCHANGED <<cls, max_size, max_num_merges, frame, vocabVars>>

NextVocabulary ==
    \/ \E arg \in BuildArgs : Vocabulary_build(arg)
    \/ \E token \in LookupTokens : Vocabulary_get_id(token)
    \/ \E id \in LookupIds : Vocabulary_get_token(id)
    \/ Vocabulary_len

SpecVocabulary == InitVocabulary /\ [][NextVocabulary]_vars

-----------------------------------------------------------------------------
(* Properties of Vocabulary *)

NumSpecial == Cardinality(Range(special_tokens))

\* build has run on this vocabulary
Built == UNKNOWN_ID # None

\* the last call was build(tokens) and returned
JustBuilt == call.op = "build" /\ raised = NoException

\* the token list the last build was given
BuildInput == IF call.arg = None THEN <<>> ELSE The(call.arg)

\* the distinct tokens of the last build's input that are not special tokens
Regular == Range(BuildInput) \ Range(special_tokens)

\* how many regular tokens sort strictly before t
Rank(t) == Cardinality({u \in Regular : StrLess(u, t)})

\* C1: with max_size >= 4, a built vocabulary holds at least the 4 special
\* tokens and at most max_size tokens.
C1_VocabularyBound ==
    (Built /\ max_size >= 4) => (4 <= VocabLen /\ VocabLen <= max_size)

\* a build that had to drop tokens: more regular tokens than max_size - 4
C1_Witness ==
    /\ JustBuilt
    /\ max_size >= 4
    /\ Cardinality(Regular) > max_size - 4
    /\ Len(BuildInput) > Cardinality(Range(BuildInput))
    /\ VocabLen = max_size

\* C2: after any build the special tokens are in the vocabulary with the ids
\* <UNK> = 0, <PAD> = 1, <BOS> = 2, <EOS> = 3, and the four *_ID attributes
\* hold 0, 1, 2, 3.
C2_SpecialTokenIds ==
    Built =>
        /\ Range(special_tokens) \subseteq DOMAIN token_2_id_map
        /\ token_2_id_map[UNKNOWN_TOKEN] = Some(0)
        /\ token_2_id_map[PADDING_TOKEN] = Some(1)
        /\ token_2_id_map[BEGIN_OF_SEQ_TOKEN] = Some(2)
        /\ token_2_id_map[END_OF_SEQ_TOKEN] = Some(3)
        /\ UNKNOWN_ID = Some(0)
        /\ PADDING_ID = Some(1)
        /\ BEGIN_OF_SEQ_ID = Some(2)
        /\ END_OF_SEQ_ID = Some(3)

\* a build whose input holds a special-token string and a token sorting before it
C2_Witness ==
    /\ JustBuilt
    /\ UNKNOWN_TOKEN \in Range(BuildInput)
    /\ \E t \in Regular : StrLess(t, UNKNOWN_TOKEN)
    /\ VocabLen > NumSpecial

\* C3: right after build(tokens) with max_size >= 4, whatever was built
\* before, token_2_id_map holds the special tokens at 0..3 and exactly the
\* regular tokens of rank below max_size - 4, each at id 4 + rank, and
\* id_2_token_map is its inverse over the ids 0..len-1.
C3_BuildDependsOnInputOnly ==
    (JustBuilt /\ max_size >= 4) =>
        /\ DOMAIN token_2_id_map =
               Range(special_tokens) \cup {t \in Regular : Rank(t) < max_size - 4}
        /\ \A i \in DOMAIN special_tokens :
               token_2_id_map[special_tokens[i]] = Some(i - 1)
        /\ \A t \in DOMAIN token_2_id_map \ Range(special_tokens) :
               token_2_id_map[t] = Some(4 + Rank(t))
        /\ DOMAIN id_2_token_map = {Some(i) : i \in 0..(VocabLen - 1)}
        /\ \A t \in DOMAIN token_2_id_map : id_2_token_map[token_2_id_map[t]] = t

\* a build over unsorted input with a repeated token, that kept two regular
\* tokens and dropped a third
C3_Witness ==
    /\ JustBuilt
    /\ max_size >= 4
    /\ Len(BuildInput) >= 2
    /\ StrLess(BuildInput[2], BuildInput[1])
    /\ Cardinality(Regular) > max_size - 4
    /\ VocabLen >= NumSpecial + 2

\* C4: on a built vocabulary get_id returns the id of a present token and 0
\* for an absent one, get_token returns the token stored at an id in
\* 0..len-1 and '<UNK>' for any other id, and neither raises.
C4_LookupsDefaultToUnknown ==
    Built =>
        /\ call.op = "get_id" =>
               /\ raised = NoException
               /\ returned = IF call.arg \in DOMAIN token_2_id_map
                             THEN token_2_id_map[call.arg]
                             ELSE Some(0)
        /\ call.op = "get_token" =>
               /\ raised = NoException
               /\ returned = IF call.arg # None /\ The(call.arg) \in 0..(VocabLen - 1)
                             THEN {t \in DOMAIN token_2_id_map :
                                      token_2_id_map[t] = call.arg}
                             ELSE Some(UNKNOWN_TOKEN)

\* get_id of the empty string, absent from a vocabulary that holds other tokens
C4_Witness ==
    /\ Built
    /\ VocabLen > NumSpecial
    /\ call.op = "get_id"
    /\ call.arg = <<>>
    /\ call.arg \notin DOMAIN token_2_id_map
    /\ returned = Some(0)

\* C5: a Vocabulary whose max_size is below the number of special tokens is
\* rejected when constructed, so no build ever returns on one.
C5_SmallMaxSizeRejected ==
    max_size < NumSpecial => ~JustBuilt

-----------------------------------------------------------------------------
(* Tokenizer, BytePairEncoding, UnigramLanguageModeling *)

\* how a call ended
Return(v) == [raised |-> NoException, returned |-> v]
Raise(e) == [raised |-> e, returned |-> None]

\* list(text): one single-character token per character
ListOf(text) == [i \in DOMAIN text |-> <<text[i]>>]

\* Tokenizer.segment
Tokenizer_segment(text) == Raise("NotImplementedError")

\* UnigramLanguageModeling.segment: the body is pass
UnigramLanguageModeling_segment(text) == Return(None)

\* BytePairEncoding.segment: the loop header iterates over max_num_merges
\* itself, an int, which raises TypeError before the first pass
BytePairEncoding_segment(text, override) ==
    LET tokenized_text == ListOf(text)
        merges == IF override = None THEN max_num_merges ELSE override
    IN  Raise("TypeError")

\* self.segment(text), dispatched on the class of self
segment(text) ==
    CASE cls = "Tokenizer" -> Tokenizer_segment(text)
      [] cls = "UnigramLanguageModeling" -> UnigramLanguageModeling_segment(text)
      [] cls = "BytePairEncoding" -> BytePairEncoding_segment(text, None)

\* ScanRight with the loop running upwards from left + 1: the shortest match
RECURSIVE ScanUpFrom(_, _, _)
ScanUpFrom(text, left, right) ==
    IF right > Len(text) THEN None
    ELSE IF get_id(SubSeq(text, left + 1, right)) # UNKNOWN_ID THEN Some(right)
    ELSE ScanUpFrom(text, left, right + 1)

ScanRight_shortest_first(text, left, right) == ScanUpFrom(text, left, left + 1)

\* Tokenizer.encode, the for loop: the first right_text_pointer, from right
\* down to left + 1, whose text[left:right] has an id other than UNKNOWN_ID;
\* None when the loop ends without a break
RECURSIVE ScanRight(_, _, _)
ScanRight(text, left, right) ==
    IF right <= left THEN None
    ELSE IF get_id(SubSeq(text, left + 1, right)) # UNKNOWN_ID THEN Some(right)
    ELSE ScanRight(text, left, right - 1)

\* Tokenizer.encode, the while loop
RECURSIVE EncodeFrom(_, _, _)
EncodeFrom(text, left_text_pointer, token_ids) ==
    IF ~(left_text_pointer < Len(text)) THEN token_ids
    ELSE LET found == ScanRight(text, left_text_pointer, Len(text))
         IN  IF found # None
             THEN EncodeFrom(text, The(found),
                      Append(token_ids,
                             get_id(SubSeq(text, left_text_pointer + 1, The(found)))))
             ELSE EncodeFrom(text, left_text_pointer + 1, Append(token_ids, UNKNOWN_ID))

\* Tokenizer.encode
encode(text) == EncodeFrom(text, 0, <<>>)

\* Tokenizer.decode
decode(token_ids) == Join([i \in DOMAIN token_ids |-> get_token(token_ids[i])])

-----------------------------------------------------------------------------
(* Inputs of the tokenizers *)

MaxTextLen == 3      \* texts of up to MaxTextLen characters
MaxMerges == 2       \* BytePairEncoding(max_num_merges = k) for k in 0..MaxMerges
MaxIds == 2          \* decode(token_ids) with len(token_ids) <= MaxIds

\* BytePairEncoding() and WordPiece() default
DefaultMaxNumMerges == 10000

HelloText ==
    <<"h", "e", "l", "l", "o", ",", " ", "e", "l", "m", "o", " ", "-", "-", " ",
      "I", " ", "l", "o", "v", "e", " ", "b", "a", "c", "o", "n", "!">>

Texts ==
    SeqsUpTo({"a", "b"}, MaxTextLen)
        \cup {HelloText, UNKNOWN_TOKEN, PADDING_TOKEN, <<"a">> \o END_OF_SEQ_TOKEN}

IdLists == SeqsUpTo({None, Some(0 - 1), Some(0), Some(1), Some(4)}, MaxIds)

\* tokenizer.vocab.build(tokens): token lists of up to two non-empty tokens
VocabBuildArgs == {Some(tokens) : tokens \in SeqsUpTo(Tokens \ {<<>>}, 2)}

TokenizerClasses == {"Tokenizer", "UnigramLanguageModeling", "BytePairEncoding"}

-----------------------------------------------------------------------------
(* A tokenizer and the vocabulary it owns *)

InitTokenizer ==
    /\ cls \in TokenizerClasses
    /\ max_size = DefaultMaxSize
    /\ EmptyVocabulary
    /\ max_num_merges \in IF cls = "BytePairEncoding"
                          THEN {Some(k) : k \in 0..MaxMerges} \cup {Some(DefaultMaxNumMerges)}
                          ELSE {None}
    /\ call = [op |-> "__init__", arg |-> max_num_merges]
    /\ frame = None
    /\ returned = None
    /\ raised = NoException

\* tokenizer.segment(text); BytePairEncoding takes an optional max_num_merges
Call_segment(text, override) ==
    LET out == IF cls = "BytePairEncoding"
               THEN BytePairEncoding_segment(text, override)
               ELSE segment(text)
    IN  /\ cls # "BytePairEncoding" => override = None
        /\ call' = [op |-> "segment", arg |-> text, max_num_merges |-> override]
        /\ returned' = out.returned
        /\ raised' = out.raised
        /\ UNCHANGED <<cls, max_size, max_num_merges, frame, vocabVars>>

\* Tokenizer.learn
Tokenizer_learn(text) ==
    LET tokenized_text == segment(text)
    IN  /\ call' = [op |-> "learn", arg |-> text]
        /\ IF tokenized_text.raised # NoException
           THEN /\ raised' = tokenized_text.raised
                /\ UNCHANGED vocabVars
           ELSE /\ raised' = NoException
                /\ AssignVocabulary(BuiltVocabulary(tokenized_text.returned, max_size))
        /\ returned' = None
        /\ UNCHANGED <<cls, max_size, max_num_merges, frame>>

Tokenizer_encode(text) ==
    /\ call' = [op |-> "encode", arg |-> text]
    /\ returned' = Some(encode(text))
    /\ raised' = NoException
    /\ UNCHANGED <<cls, max_size, max_num_merges, frame, vocabVars>>

Tokenizer_decode(token_ids) ==
    /\ call' = [op |-> "decode", arg |-> token_ids]
    /\ returned' = Some(decode(token_ids))
    /\ raised' = NoException
    /\ UNCHANGED <<cls, max_size, max_num_merges, frame, vocabVars>>

\* tokenizer.decode(tokenizer.encode(text)): decode is given what encode returned
Tokenizer_decode_encoded ==
    /\ call.op = "encode"
    /\ raised = NoException
    /\ call' = [op |-> "decode", arg |-> The(returned), text |-> call.arg]
    /\ returned' = Some(decode(The(returned)))
    /\ raised' = NoException
    /\ UNCHANGED <<cls, max_size, max_num_merges, frame, vocabVars>>

\* Tokenizer.__len__
Tokenizer_len ==
    /\ call' = [op |-> "__len__", arg |-> None]
    /\ returned' = Some(VocabLen)
    /\ raised' = NoException
    /\ UNCHANGED <<cls, max_size, max_num_merges, frame, vocabVars>>

NextTokenizer ==
    \/ \E text \in Texts, override \in {None} \cup {Some(k) : k \in 0..MaxMerges} :
           Call_segment(text, override)
    \/ \E text \in Texts : Tokenizer_learn(text)
    \/ \E text \in Texts : Tokenizer_encode(text)
    \/ \E token_ids \in IdLists : Tokenizer_decode(token_ids)
    \/ Tokenizer_decode_encoded
    \/ Tokenizer_len
    \/ \E arg \in VocabBuildArgs : Vocabulary_build(arg)
    \/ \E token \in LookupTokens : Vocabulary_get_id(token)

SpecTokenizer == InitTokenizer /\ [][NextTokenizer]_vars

-----------------------------------------------------------------------------
(* Properties of the tokenizers *)

\* the ends r of the substrings text[cursor..r] whose id is not the UNK id
\* (cursor and r count characters from 1)
MatchEnds(text, cursor) ==
    {r \in cursor..Len(text) : get_id(SubSeq(text, cursor, r)) # UNKNOWN_ID}

\* the ids a greedy longest-match scan emits from cursor on
RECURSIVE GreedyLongestMatch(_, _)
GreedyLongestMatch(text, cursor) ==
    IF cursor > Len(text) THEN <<>>
    ELSE IF MatchEnds(text, cursor) = {}
         THEN <<UNKNOWN_ID>> \o GreedyLongestMatch(text, cursor + 1)
         ELSE LET longest == CHOOSE r \in MatchEnds(text, cursor) :
                                 \A q \in MatchEnds(text, cursor) : q <= r
              IN  <<get_id(SubSeq(text, cursor, longest))>>
                      \o GreedyLongestMatch(text, longest + 1)

\* C6: the inherited encode returns the ids of a greedy longest-match scan:
\* at each cursor the id of the longest substring with a non-UNK id, the
\* cursor moving past it, or the UNK id and a move by one character when no
\* substring at the cursor has one.
C6_EncodeIsGreedyLongestMatch ==
    (cls \in TokenizerClasses /\ call.op = "encode") =>
        /\ raised = NoException
        /\ returned = Some(GreedyLongestMatch(call.arg, 1))

\* an encode on a built vocabulary where a shorter and a longer token both
\* match at some cursor, and where some character has no match
C6_Witness ==
    /\ cls \in TokenizerClasses
    /\ call.op = "encode"
    /\ Built
    /\ \E cursor \in DOMAIN call.arg : Cardinality(MatchEnds(call.arg, cursor)) >= 2
    /\ UNKNOWN_ID \in Range(The(returned))
    /\ Len(The(returned)) = 2

\* C7: in every state of a tokenizer, a fresh one included, encode returns a
\* list of non-negative integers and get_id returns an integer.
C7_EncodeYieldsNaturals ==
    /\ (cls \in TokenizerClasses /\ call.op = "encode" /\ raised = NoException) =>
           \A i \in DOMAIN The(returned) :
               The(returned)[i] # None /\ The(The(returned)[i]) >= 0
    /\ (cls \in TokenizerClasses /\ call.op = "get_id") => returned # None

HelloSegments ==
    <<<<"h">>, <<"e", "l">>, <<"l", "o">>, <<",">>, <<" ">>, <<"e", "l">>, <<"m">>,
      <<"o">>, <<" ">>, <<"-">>, <<"-">>, <<" ">>, <<"I">>, <<" ">>, <<"l", "o">>,
      <<"v">>, <<"e">>, <<" ">>, <<"b">>, <<"a">>, <<"c">>, <<"o">>, <<"n">>, <<"!">>>>

\* the expected vocabulary, in id order from 0
HelloVocabulary ==
    <<UNKNOWN_TOKEN, PADDING_TOKEN, BEGIN_OF_SEQ_TOKEN, END_OF_SEQ_TOKEN,
      <<" ">>, <<"!">>, <<",">>, <<"-">>, <<"I">>, <<"a">>, <<"b">>, <<"c">>, <<"e">>,
      <<"e", "l">>, <<"h">>, <<"l", "o">>, <<"m">>, <<"n">>, <<"o">>, <<"v">>>>

\* C10: BytePairEncoding with max_num_merges = 2 segments
\* "hello, elmo -- I love bacon!" into the expected 24 tokens, and learn on it
\* leaves the expected 20-entry vocabulary.
C10_HelloScenario ==
    (cls = "BytePairEncoding" /\ max_num_merges = Some(2)) =>
        /\ (call.op = "segment" /\ call.max_num_merges = None /\ call.arg = HelloText) =>
               /\ raised = NoException
               /\ returned = Some(HelloSegments)
        /\ (call.op = "learn" /\ call.arg = HelloText) =>
               /\ raised = NoException
               /\ DOMAIN token_2_id_map = Range(HelloVocabulary)
               /\ \A i \in DOMAIN HelloVocabulary :
                      token_2_id_map[HelloVocabulary[i]] = Some(i - 1)

-----------------------------------------------------------------------------
(* SimpleTokenizer: a class of its own, built around a given vocabulary dict *)

\* string.punctuation
Punctuation ==
    <<"!", "\"", "#", "$", "%", "&", "'", "(", ")", "*", "+", ",", "-", ".", "/", ":",
      ";", "<", "=", ">", "?", "@", "[", "\\", "]", "^", "_", Grave, "{", "|", "}", "~">>

\* token in string.punctuation: the substring test of str
IsSubstring(token, str) ==
    \E start \in 0..(Len(str) - Len(token)) :
        SubSeq(str, start + 1, start + Len(token)) = token

\* [a-zA-Z]
IsAsciiLetter(c) == Code(c) \in (65..90) \cup (97..122)

\* [!?\'";:,.()]
RegexPunctuation == {"!", "?", "'", "\"", ";", ":", ",", ".", "(", ")"}

\* [a-zA-Z]+ matched at pos: the last position of the maximal run of letters
RECURSIVE LetterRunEnd(_, _)
LetterRunEnd(text, pos) ==
    IF pos + 1 <= Len(text) /\ IsAsciiLetter(text[pos + 1])
    THEN LetterRunEnd(text, pos + 1)
    ELSE pos

\* re.findall(r'([a-zA-Z]+|[!?\'";:,.()]|--)', text) from position pos on:
\* a character that starts no match is skipped
RECURSIVE FindAll(_, _)
FindAll(text, pos) ==
    IF pos > Len(text) THEN <<>>
    ELSE IF IsAsciiLetter(text[pos])
         THEN <<SubSeq(text, pos, LetterRunEnd(text, pos))>>
                  \o FindAll(text, LetterRunEnd(text, pos) + 1)
    ELSE IF text[pos] \in RegexPunctuation
         THEN <<SubSeq(text, pos, pos)>> \o FindAll(text, pos + 1)
    ELSE IF text[pos] = "-" /\ pos + 1 <= Len(text) /\ text[pos + 1] = "-"
         THEN <<SubSeq(text, pos, pos + 1)>> \o FindAll(text, pos + 2)
    ELSE FindAll(text, pos + 1)

\* SimpleTokenizer.encode: token_2_id_map[token] raises KeyError on a miss
SimpleTokenizer_encode(text) ==
    LET tokens == FindAll(text, 1)
    IN  IF \E i \in DOMAIN tokens : tokens[i] \notin DOMAIN token_2_id_map
        THEN Raise("KeyError")
        ELSE Return(Some([i \in DOMAIN tokens |-> token_2_id_map[tokens[i]]]))

\* SimpleTokenizer.decode, the pieces appended for ids[iter] (iter from 1 here)
DecodePieces(ids, iter) ==
    LET token == id_2_token_map[ids[iter]]
    IN  IF iter > 1 /\ ~IsSubstring(token, Punctuation)
        THEN <<<<" ">>, token>>
        ELSE <<token>>

\* SimpleTokenizer.decode: id_2_token_map[id] raises KeyError on a miss
SimpleTokenizer_decode(ids) ==
    IF \E i \in DOMAIN ids : ids[i] \notin DOMAIN id_2_token_map
    THEN Raise("KeyError")
    ELSE Return(Some(Join([i \in DOMAIN ids |-> Join(DecodePieces(ids, i))])))

HelloWorld == <<"H", "e", "l", "l", "o", ",", " ", "w", "o", "r", "l", "d", "!">>

SimpleTexts == SeqsUpTo({"a", " ", "!", "-"}, MaxTextLen)

\* the vocabularies given to SimpleTokenizer(vocab): the tokens of a subset,
\* numbered from 0 in sorted order
SimpleVocabs == {Enumerate(Sorted(S)) : S \in SUBSET {<<"a">>, <<"!">>, <<"-", "-">>}}

SimpleIdLists == SeqsUpTo({Some(0), Some(1), Some(2)}, MaxIds)

\* SimpleTokenizer.__init__
InitSimpleTokenizer ==
    /\ cls = "SimpleTokenizer"
    /\ max_size = 0
    /\ UNKNOWN_ID = None
    /\ PADDING_ID = None
    /\ BEGIN_OF_SEQ_ID = None
    /\ END_OF_SEQ_ID = None
    /\ token_2_id_map \in SimpleVocabs
    /\ id_2_token_map = Inverse(token_2_id_map)
    /\ max_num_merges = None
    /\ call = [op |-> "__init__", arg |-> token_2_id_map]
    /\ frame = None
    /\ returned = None
    /\ raised = NoException

\* a call of a method the class does not define: segment, learn
Call_undefined(op, text) ==
    /\ call' = [op |-> op, arg |-> text]
    /\ returned' = None
    /\ raised' = "AttributeError"
    /\ UNCHANGED <<cls, max_size, max_num_merges, frame, vocabVars>>

Call_simple_encode(text) ==
    /\ call' = [op |-> "encode", arg |-> text]
    /\ returned' = SimpleTokenizer_encode(text).returned
    /\ raised' = SimpleTokenizer_encode(text).raised
    /\ UNCHANGED <<cls, max_size, max_num_merges, frame, vocabVars>>

Call_simple_decode(ids) ==
    /\ call' = [op |-> "decode", arg |-> ids]
    /\ returned' = SimpleTokenizer_decode(ids).returned
    /\ raised' = SimpleTokenizer_decode(ids).raised
    /\ UNCHANGED <<cls, max_size, max_num_merges, frame, vocabVars>>

\* decode(encode(text)): decode is given what encode returned
Call_simple_decode_encoded ==
    /\ call.op = "encode"
    /\ raised = NoException
    /\ call' = [op |-> "decode", arg |-> The(returned), text |-> call.arg]
    /\ returned' = SimpleTokenizer_decode(The(returned)).returned
    /\ raised' = SimpleTokenizer_decode(The(returned)).raised
    /\ UNCHANGED <<cls, max_size, max_num_merges, frame, vocabVars>>

NextSimpleTokenizer ==
    \/ \E text \in {<<>>, <<"a">>, HelloWorld} : Call_undefined("segment", text)
    \/ \E text \in {<<>>, <<"a">>, HelloWorld} : Call_undefined("learn", text)
    \/ \E text \in SimpleTexts : Call_simple_encode(text)
    \/ \E ids \in SimpleIdLists : Call_simple_decode(ids)
    \/ Call_simple_decode_encoded

SpecSimpleTokenizer == InitSimpleTokenizer /\ [][NextSimpleTokenizer]_vars

\* C8: the simple segmenter has a segment(text) that returns tokens which,
\* concatenated in order, give back the text.
C8_SimpleSegmentPartitions ==
    (cls = "SimpleTokenizer" /\ call.op = "segment") =>
        /\ raised = NoException
        /\ returned # None
        /\ Join(The(returned)) = call.arg

\* C9: with every token of the text in the vocabulary, decode(encode(text))
\* is the text, and no decode raises on an id the vocabulary lacks.
C9_SimpleRoundTrip ==
    (cls = "SimpleTokenizer" /\ call.op = "decode") =>
        /\ raised = NoException
        /\ "text" \in DOMAIN call => returned = Some(call.text)

-----------------------------------------------------------------------------
(* BytePairEncoding: the two steps of a merge pass *)

\* (tokenized_text[token_idx], tokenized_text[token_idx + 1]), indices from 1
PairAt(tokenized_text, token_idx) ==
    <<tokenized_text[token_idx], tokenized_text[token_idx + 1]>>

\* token_pairs[token_pair] once the counting loop has ended
PairCount(tokenized_text, token_pair) ==
    Cardinality({i \in 1..(Len(tokenized_text) - 1) :
                     PairAt(tokenized_text, i) = token_pair})

\* max(token_pairs, key = token_pairs.get) with the keys taken in reverse
\* insertion order
find_most_frequent_token_pair_last_inserted(tokenized_text) ==
    IF Len(tokenized_text) <= 1 THEN None
    ELSE LET count(i) == PairCount(tokenized_text, PairAt(tokenized_text, i))
             pairs == 1..(Len(tokenized_text) - 1)
             first(i) == \A j \in 1..(i - 1) :
                             PairAt(tokenized_text, j) # PairAt(tokenized_text, i)
             best == CHOOSE i \in pairs :
                         /\ first(i)
                         /\ \A j \in pairs : count(j) <= count(i)
                         /\ \A j \in pairs :
                                (first(j) /\ count(j) = count(i)) => j <= i
         IN  Some(PairAt(tokenized_text, best))

\* BytePairEncoding.find_most_frequent_token_pair: a dict keeps its keys in
\* insertion order, the order of first occurrence, and max returns the first
\* key among those of greatest count; None when there is no pair
find_most_frequent_token_pair(tokenized_text) ==
    IF Len(tokenized_text) <= 1 THEN None
    ELSE LET count(i) == PairCount(tokenized_text, PairAt(tokenized_text, i))
             pairs == 1..(Len(tokenized_text) - 1)
             best == CHOOSE i \in pairs :
                         /\ \A j \in pairs : count(j) <= count(i)
                         /\ \A j \in pairs : count(j) = count(i) => i <= j
         IN  Some(PairAt(tokenized_text, best))

\* the loop of add_new_token_pair without skip_token: every occurrence merges
RECURSIVE MergeEveryOccurrence(_, _, _, _)
MergeEveryOccurrence(token_pair, tokenized_text, token_idx, updated) ==
    IF token_idx > Len(tokenized_text) - 1 THEN updated
    ELSE IF PairAt(tokenized_text, token_idx) = token_pair
         THEN MergeEveryOccurrence(token_pair, tokenized_text, token_idx + 1,
                  Append(updated, token_pair[1] \o token_pair[2]))
         ELSE MergeEveryOccurrence(token_pair, tokenized_text, token_idx + 1,
                  Append(updated, tokenized_text[token_idx]))

\* BytePairEncoding.add_new_token_pair, the for loop from token_idx on:
\* the locals skip_token and updated_tokenized_text when it ends
RECURSIVE MergeLoop(_, _, _, _, _)
MergeLoop(token_pair, tokenized_text, token_idx, skip_token, updated) ==
    IF token_idx > Len(tokenized_text) - 1
    THEN [skip_token |-> skip_token, updated_tokenized_text |-> updated]
    ELSE IF skip_token
         THEN MergeLoop(token_pair, tokenized_text, token_idx + 1, FALSE, updated)
    ELSE IF PairAt(tokenized_text, token_idx) = token_pair
         THEN MergeLoop(token_pair, tokenized_text, token_idx + 1, TRUE,
                  Append(updated, token_pair[1] \o token_pair[2]))
         ELSE MergeLoop(token_pair, tokenized_text, token_idx + 1, FALSE,
                  Append(updated, tokenized_text[token_idx]))

add_new_token_pair_overlapping(token_pair, tokenized_text) ==
    IF tokenized_text = <<>> THEN Raise("IndexError")
    ELSE Return(Some(Append(MergeEveryOccurrence(token_pair, tokenized_text, 1, <<>>),
                            tokenized_text[Len(tokenized_text)])))

\* BytePairEncoding.add_new_token_pair: tokenized_text[-1] of an empty list
\* raises IndexError
add_new_token_pair(token_pair, tokenized_text) ==
    LET loop == MergeLoop(token_pair, tokenized_text, 1, FALSE, <<>>)
    IN  IF ~loop.skip_token
        THEN IF tokenized_text = <<>>
             THEN Raise("IndexError")
             ELSE Return(Some(Append(loop.updated_tokenized_text,
                                     tokenized_text[Len(tokenized_text)])))
        ELSE Return(Some(loop.updated_tokenized_text))

-----------------------------------------------------------------------------
(* A BytePairEncoding whose merge-pass methods are called directly *)

MaxSeqLen == 6       \* tokenized texts of up to MaxSeqLen tokens

BpeTokens == {<<"a">>, <<"b">>}

TokenSeqs == SeqsUpTo(BpeTokens, MaxSeqLen)

TokenPairs == BpeTokens \X BpeTokens

\* BytePairEncoding()
InitBytePairEncoding ==
    /\ cls = "BytePairEncoding"
    /\ max_size = DefaultMaxSize
    /\ EmptyVocabulary
    /\ max_num_merges = Some(DefaultMaxNumMerges)
    /\ call = [op |-> "__init__", arg |-> max_num_merges]
    /\ frame = None
    /\ returned = None
    /\ raised = NoException

\* bpe.find_most_frequent_token_pair(tokenized_text)
Call_find_most_frequent_token_pair(tokenized_text) ==
    /\ call' = [op |-> "find_most_frequent_token_pair", arg |-> tokenized_text]
    /\ returned' = find_most_frequent_token_pair(tokenized_text)
    /\ raised' = NoException
    /\ UNCHANGED <<cls, max_size, max_num_merges, frame, vocabVars>>

\* bpe.add_new_token_pair(token_pair, tokenized_text)
Call_add_new_token_pair(token_pair, tokenized_text) ==
    LET out == add_new_token_pair(token_pair, tokenized_text)
    IN  /\ call' = [op |-> "add_new_token_pair", arg |-> tokenized_text,
                    token_pair |-> token_pair]
        /\ returned' = out.returned
        /\ raised' = out.raised
        /\ UNCHANGED <<cls, max_size, max_num_merges, frame, vocabVars>>

\* the body of the loop of segment: the pair just found, when there is one,
\* is merged in the sequence it was found in
Call_add_most_frequent_token_pair ==
    /\ call.op = "find_most_frequent_token_pair"
    /\ returned # None
    /\ LET out == add_new_token_pair(The(returned), call.arg)
       IN  /\ call' = [op |-> "add_new_token_pair", arg |-> call.arg,
                       token_pair |-> The(returned)]
           /\ returned' = out.returned
           /\ raised' = out.raised
    /\ UNCHANGED <<cls, max_size, max_num_merges, frame, vocabVars>>

NextBytePairEncoding ==
    \/ \E tokenized_text \in TokenSeqs :
           Call_find_most_frequent_token_pair(tokenized_text)
    \/ \E token_pair \in TokenPairs, tokenized_text \in TokenSeqs :
           Call_add_new_token_pair(token_pair, tokenized_text)
    \/ Call_add_most_frequent_token_pair

SpecBytePairEncoding == InitBytePairEncoding /\ [][NextBytePairEncoding]_vars

-----------------------------------------------------------------------------
(* Properties of the merge-pass methods *)

\* where token_pair occurs in tokenized_text, overlapping occurrences included
Occurrences(tokenized_text, token_pair) ==
    {i \in 1..(Len(tokenized_text) - 1) : PairAt(tokenized_text, i) = token_pair}

AdjacentPairs(tokenized_text) ==
    {PairAt(tokenized_text, i) : i \in 1..(Len(tokenized_text) - 1)}

\* the adjacent pairs of greatest occurrence count
MostFrequentPairs(tokenized_text) ==
    {p \in AdjacentPairs(tokenized_text) :
        \A q \in AdjacentPairs(tokenized_text) :
            PairCount(tokenized_text, q) <= PairCount(tokenized_text, p)}

FirstOccurrence(tokenized_text, token_pair) ==
    CHOOSE i \in Occurrences(tokenized_text, token_pair) :
        \A j \in Occurrences(tokenized_text, token_pair) : i <= j

\* where a left-to-right count of a most frequent pair reaches the greatest
\* count: at its last occurrence
ReachesMaximumAt(tokenized_text, token_pair) ==
    CHOOSE i \in Occurrences(tokenized_text, token_pair) :
        \A j \in Occurrences(tokenized_text, token_pair) : j <= i

\* C19 (as stated): find_most_frequent_token_pair returns None for a sequence
\* of at most one token and otherwise a most frequent adjacent pair, and among
\* the most frequent pairs the one whose count reaches the maximum first in a
\* left-to-right scan.
C19_FirstPairToReachMaximum ==
    call.op = "find_most_frequent_token_pair" =>
        /\ raised = NoException
        /\ Len(call.arg) <= 1 => returned = None
        /\ Len(call.arg) > 1 =>
               /\ returned \subseteq MostFrequentPairs(call.arg)
               /\ Cardinality(returned) = 1
               /\ \A q \in MostFrequentPairs(call.arg) :
                      ReachesMaximumAt(call.arg, The(returned))
                          <= ReachesMaximumAt(call.arg, q)

\* C19 (amended): find_most_frequent_token_pair returns None for a sequence of
\* at most one token and otherwise a most frequent adjacent pair, overlapping
\* occurrences counted, and among the most frequent pairs the one whose first
\* occurrence is leftmost.
C19_FirstOccurringMostFrequentPair ==
    call.op = "find_most_frequent_token_pair" =>
        /\ raised = NoException
        /\ Len(call.arg) <= 1 => returned = None
        /\ Len(call.arg) > 1 =>
               /\ returned \subseteq MostFrequentPairs(call.arg)
               /\ Cardinality(returned) = 1
               /\ \A q \in MostFrequentPairs(call.arg) :
                      FirstOccurrence(call.arg, The(returned))
                          <= FirstOccurrence(call.arg, q)

\* two pairs tied at count two, the later-starting one completing its count
\* first, and the earlier-starting one returned
C19_Witness ==
    /\ call.op = "find_most_frequent_token_pair"
    /\ returned # None
    /\ PairCount(call.arg, The(returned)) = 2
    /\ \E q \in MostFrequentPairs(call.arg) :
           /\ q # The(returned)
           /\ FirstOccurrence(call.arg, The(returned)) < FirstOccurrence(call.arg, q)
           /\ ReachesMaximumAt(call.arg, q) < ReachesMaximumAt(call.arg, The(returned))

\* whether a left-to-right scan merges the occurrence of token_pair at i:
\* the pair is there and the token at i was not consumed by a merge at i - 1
RECURSIVE IsMergeStart(_, _, _)
IsMergeStart(token_pair, tokenized_text, i) ==
    /\ i \in Occurrences(tokenized_text, token_pair)
    /\ ~IsMergeStart(token_pair, tokenized_text, i - 1)

\* tokenized_text from position i on with every non-overlapping occurrence of
\* token_pair, taken left to right, replaced by the concatenation
RECURSIVE ReplaceLeftToRight(_, _, _)
ReplaceLeftToRight(token_pair, tokenized_text, i) ==
    IF i > Len(tokenized_text) THEN <<>>
    ELSE IF i < Len(tokenized_text) /\ PairAt(tokenized_text, i) = token_pair
         THEN <<token_pair[1] \o token_pair[2]>>
                  \o ReplaceLeftToRight(token_pair, tokenized_text, i + 2)
         ELSE <<tokenized_text[i]>>
                  \o ReplaceLeftToRight(token_pair, tokenized_text, i + 1)

\* C20: on a sequence of at least one token, add_new_token_pair returns the
\* sequence with every non-overlapping occurrence of the pair, taken left to
\* right, replaced by the concatenation and every other token copied in order;
\* one token fewer per merge; ('a','a') in ['a','a','a'] gives ['aa','a']; the
\* result ends with the last input token exactly when no merge consumed it.
C20_MergePassReplacesLeftToRight ==
    (call.op = "add_new_token_pair" /\ call.arg # <<>>) =>
        LET n == Len(call.arg)
            merged == {i \in 1..(n - 1) : IsMergeStart(call.token_pair, call.arg, i)}
            out == The(returned)
        IN  /\ raised = NoException
            /\ returned = Some(ReplaceLeftToRight(call.token_pair, call.arg, 1))
            /\ Len(out) = n - Cardinality(merged)
            /\ (call.arg = <<<<"a">>, <<"a">>, <<"a">>>>
                    /\ call.token_pair = <<<<"a">>, <<"a">>>>)
                   => out = <<<<"a", "a">>, <<"a">>>>
            /\ IF (n - 1) \in merged
               THEN out[Len(out)] = call.token_pair[1] \o call.token_pair[2]
               ELSE out[Len(out)] = call.arg[n]

\* a pass over a run of four equal tokens followed by another: two
\* non-overlapping merges, the middle occurrence skipped, the last token kept
C20_Witness ==
    /\ call.op = "add_new_token_pair"
    /\ call.token_pair = <<<<"a">>, <<"a">>>>
    /\ call.arg = <<<<"a">>, <<"a">>, <<"a">>, <<"a">>, <<"b">>>>
    /\ returned = Some(<<<<"a", "a">>, <<"a", "a">>, <<"b">>>>)

-----------------------------------------------------------------------------
(* Properties of BytePairEncoding and of the classes without a segment *)

\* C11: after BytePairEncoding.learn(T) has returned, the inherited encode
\* gives for T the ids of the tokens of segment(T), none of them the UNK id,
\* '<BOS>' and '<EOS>' spliced around T add the ids 2 and 3 at the ends, and
\* decode(encode(T)) is T.
C11_EncodeReproducesLearnedSegmentation ==
    (cls = "BytePairEncoding" /\ call.op = "learn") =>
        LET T == call.arg
            tokenized_text == segment(T)
            spliced == BEGIN_OF_SEQ_TOKEN \o T \o END_OF_SEQ_TOKEN
        IN  /\ raised = NoException
            /\ tokenized_text.raised = NoException
            /\ encode(T) = [i \in DOMAIN The(tokenized_text.returned) |->
                               get_id(The(tokenized_text.returned)[i])]
            /\ UNKNOWN_ID \notin Range(encode(T))
            /\ encode(spliced) = <<Some(2)>> \o encode(T) \o <<Some(3)>>
            /\ decode(encode(T)) = T

\* C12: for every text and caps k1 <= k2, BytePairEncoding.segment returns
\* for both caps and the result for k2 has no more tokens than that for k1.
C12_MoreMergesNeverMoreTokens ==
    (cls = "BytePairEncoding" /\ call.op = "segment") =>
        \A k1 \in 0..MaxMerges, k2 \in 0..MaxMerges :
            k1 <= k2 =>
                LET few == BytePairEncoding_segment(call.arg, Some(k1))
                    many == BytePairEncoding_segment(call.arg, Some(k2))
                IN  /\ few.raised = NoException
                    /\ many.raised = NoException
                    /\ Len(The(many.returned)) <= Len(The(few.returned))

\* C17: segment and learn on the base Tokenizer and on UnigramLanguageModeling
\* raise NotImplementedError and leave the vocabulary as it was.
C17_UnimplementedFailsLoudly ==
    [][(cls \in {"Tokenizer", "UnigramLanguageModeling"}
            /\ call'.op \in {"segment", "learn"})
           => (raised' = "NotImplementedError" /\ UNCHANGED vocabVars)]_vars

\* the working sequence after at most k passes, each merging the most frequent
\* pair, the passes ending early when there is no pair
RECURSIVE MergePasses(_, _)
MergePasses(tokenized_text, k) ==
    IF k = 0 \/ find_most_frequent_token_pair(tokenized_text) = None
    THEN tokenized_text
    ELSE MergePasses(
             The(add_new_token_pair(The(find_most_frequent_token_pair(tokenized_text)),
                                    tokenized_text).returned),
             k - 1)

\* C18: BytePairEncoding.segment(text), the cap k being the per-call override
\* when given and the instance's max_num_merges otherwise, returns the
\* sequence left by at most k merge passes that end early when no adjacent
\* pair exists; the characters of the text for k = 0; [] for the empty text.
C18_SegmentReturnsWithinCap ==
    (cls = "BytePairEncoding" /\ call.op = "segment") =>
        LET k == IF call.max_num_merges = None
                 THEN The(max_num_merges)
                 ELSE The(call.max_num_merges)
        IN  /\ raised = NoException
            /\ returned = Some(MergePasses(ListOf(call.arg), k))
            /\ k = 0 => returned = Some(ListOf(call.arg))
            /\ call.arg = <<>> => returned = Some(<<>>)

-----------------------------------------------------------------------------
(* WordPiece *)

\* \w on ASCII text: a letter, a digit or the underscore
IsWordChar(c) == IsAsciiLetter(c) \/ Code(c) \in 48..57 \/ c = "_"

\* \s on printable ASCII text
IsSpace(c) == c = " "

\* the test with the pattern reduced to \s
punctuation_or_whitespace_only_whitespace(token) ==
    Len(token) = 1 /\ IsSpace(token[1])

\* re.fullmatch(r'[^\w\s]|\s', token): a single character that is neither a
\* word character nor whitespace, or a single whitespace character
punctuation_or_whitespace(token) ==
    /\ Len(token) = 1
    /\ \/ ~IsWordChar(token[1]) /\ ~IsSpace(token[1])
       \/ IsSpace(token[1])

\* d[key] = value
DictSet(d, key, value) ==
    [k \in DOMAIN d \cup {key} |-> IF k = key THEN value ELSE d[k]]

\* del d[key]
DictDel(d, key) == [k \in DOMAIN d \ {key} |-> d[k]]

\* WordPiece.segment, the frequency of every token of the character list
CountTokens(tokenized_text) ==
    [token \in Range(tokenized_text) |->
        Cardinality({i \in DOMAIN tokenized_text : tokenized_text[i] = token})]

\* the comparison of two keys of max by the frequency of the pair alone
score_greater_by_pair_frequency(pair_freq, product, other_freq, other_product) ==
    pair_freq > other_freq

\* pair_freq / product > other_freq / other_product for non-zero products,
\* without the division: both sides times the square of both products
score_greater(pair_freq, product, other_freq, other_product) ==
    product * other_product
        * (pair_freq * other_product - other_freq * product) > 0

\* find_highest_scoring_token_pair with a max that keeps the last key of
\* greatest score instead of the first
find_highest_scoring_token_pair_last_key(tokenized_text, token_2_freq_map) ==
    LET counted == {i \in 1..(Len(tokenized_text) - 1) :
                       /\ ~punctuation_or_whitespace(tokenized_text[i])
                       /\ ~punctuation_or_whitespace(tokenized_text[i + 1])}
        pair_freq(i) == Cardinality({j \in counted :
                            PairAt(tokenized_text, j) = PairAt(tokenized_text, i)})
        missing(i) == \/ tokenized_text[i] \notin DOMAIN token_2_freq_map
                      \/ tokenized_text[i + 1] \notin DOMAIN token_2_freq_map
        product(i) == token_2_freq_map[tokenized_text[i]]
                          * token_2_freq_map[tokenized_text[i + 1]]
        greater(i, j) == score_greater(pair_freq(i), product(i),
                                       pair_freq(j), product(j))
        first_failing(failing) == CHOOSE i \in failing : \A j \in failing : i <= j
        max(keys, failing) ==
            IF keys = {} THEN Return(None)
            ELSE IF failing # {}
                 THEN IF missing(first_failing(failing)) THEN Raise("KeyError")
                      ELSE Raise("ZeroDivisionError")
            ELSE Return(Some(PairAt(tokenized_text,
                     CHOOSE i \in keys :
                         \A j \in keys : IF j > i THEN greater(i, j)
                                         ELSE ~greater(j, i))))
        keyed(keys) == max(keys, {i \in keys : missing(i) \/ product(i) = 0})
    IN  keyed({i \in counted :
                  \A j \in 1..(i - 1) :
                      j \in counted =>
                          PairAt(tokenized_text, j) # PairAt(tokenized_text, i)})

\* WordPiece.find_highest_scoring_token_pair. The keys of
\* token_pair_2_freq_map are the pairs without a punctuation or whitespace
\* member, in the order of their first occurrence; max evaluates the score of
\* every key in that order, so the first key with a token missing from
\* token_2_freq_map raises KeyError and the first with a zero product
\* ZeroDivisionError; otherwise max returns the first key of greatest score.
find_highest_scoring_token_pair(tokenized_text, token_2_freq_map) ==
    LET counted == {i \in 1..(Len(tokenized_text) - 1) :
                       /\ ~punctuation_or_whitespace(tokenized_text[i])
                       /\ ~punctuation_or_whitespace(tokenized_text[i + 1])}
        pair_freq(i) == Cardinality({j \in counted :
                            PairAt(tokenized_text, j) = PairAt(tokenized_text, i)})
        missing(i) == \/ tokenized_text[i] \notin DOMAIN token_2_freq_map
                      \/ tokenized_text[i + 1] \notin DOMAIN token_2_freq_map
        product(i) == token_2_freq_map[tokenized_text[i]]
                          * token_2_freq_map[tokenized_text[i + 1]]
        greater(i, j) == score_greater(pair_freq(i), product(i),
                                       pair_freq(j), product(j))
        first_failing(failing) == CHOOSE i \in failing : \A j \in failing : i <= j
        max(keys, failing) ==
            IF keys = {} THEN Return(None)
            ELSE IF failing # {}
                 THEN IF missing(first_failing(failing)) THEN Raise("KeyError")
                      ELSE Raise("ZeroDivisionError")
            ELSE Return(Some(PairAt(tokenized_text,
                     CHOOSE i \in keys :
                         \A j \in keys : IF j < i THEN greater(i, j)
                                         ELSE ~greater(j, i))))
        keyed(keys) == max(keys, {i \in keys : missing(i) \/ product(i) = 0})
    IN  keyed({i \in counted :
                  \A j \in 1..(i - 1) :
                      j \in counted =>
                          PairAt(tokenized_text, j) # PairAt(tokenized_text, i)})

\* the update of token_2_freq_map at one merge that leaves a member whose
\* count reached zero in the map
MergeFrequencies_without_deletion(token_pair, token_2_freq_map) ==
    LET KeyError(d) == [raised |-> "KeyError", token_2_freq_map |-> d]
        decrement_right(d) ==
            IF token_pair[2] \notin DOMAIN d THEN KeyError(d)
            ELSE [raised |-> NoException,
                  token_2_freq_map |-> DictSet(d, token_pair[2], d[token_pair[2]] - 1)]
        decrement_left(d) ==
            IF token_pair[1] \notin DOMAIN d THEN KeyError(d)
            ELSE decrement_right(DictSet(d, token_pair[1], d[token_pair[1]] - 1))
    IN  decrement_left(DictSet(token_2_freq_map, token_pair[1] \o token_pair[2],
            DictGet(token_2_freq_map, token_pair[1] \o token_pair[2], 0) + 1))

\* WordPiece.add_new_token_pair, the update of token_2_freq_map at one merge:
\* the new token gains one, both members lose one, a member left at zero is
\* deleted; a lookup of a key that is not there raises KeyError, as the second
\* test for zero does when the members are equal and the first test deleted
\* their key
MergeFrequencies(token_pair, token_2_freq_map) ==
    LET KeyError(d) == [raised |-> "KeyError", token_2_freq_map |-> d]
        delete_right(d) ==
            IF token_pair[2] \notin DOMAIN d THEN KeyError(d)
            ELSE [raised |-> NoException,
                  token_2_freq_map |-> IF d[token_pair[2]] = 0
                                       THEN DictDel(d, token_pair[2]) ELSE d]
        delete_left(d) ==
            delete_right(IF d[token_pair[1]] = 0 THEN DictDel(d, token_pair[1]) ELSE d)
        decrement_right(d) ==
            IF token_pair[2] \notin DOMAIN d THEN KeyError(d)
            ELSE delete_left(DictSet(d, token_pair[2], d[token_pair[2]] - 1))
        decrement_left(d) ==
            IF token_pair[1] \notin DOMAIN d THEN KeyError(d)
            ELSE decrement_right(DictSet(d, token_pair[1], d[token_pair[1]] - 1))
    IN  decrement_left(DictSet(token_2_freq_map, token_pair[1] \o token_pair[2],
            DictGet(token_2_freq_map, token_pair[1] \o token_pair[2], 0) + 1))

\* WordPiece.add_new_token_pair, the for loop from token_idx on: the locals
\* and the frequency map when it ends or raises
RECURSIVE WordPieceMergeLoop(_, _, _, _, _, _)
WordPieceMergeLoop(token_pair, tokenized_text, token_idx, skip_token, updated, token_2_freq_map) ==
    LET merge(counted) ==
            IF counted.raised # NoException
            THEN [raised |-> counted.raised, skip_token |-> skip_token,
                  updated_tokenized_text |->
                      Append(updated, token_pair[1] \o token_pair[2]),
                  token_2_freq_map |-> counted.token_2_freq_map]
            ELSE WordPieceMergeLoop(token_pair, tokenized_text, token_idx + 1, TRUE,
                     Append(updated, token_pair[1] \o token_pair[2]),
                     counted.token_2_freq_map)
    IN  IF token_idx > Len(tokenized_text) - 1
        THEN [raised |-> NoException, skip_token |-> skip_token,
              updated_tokenized_text |-> updated,
              token_2_freq_map |-> token_2_freq_map]
        ELSE IF skip_token
             THEN WordPieceMergeLoop(token_pair, tokenized_text, token_idx + 1,
                                     FALSE, updated, token_2_freq_map)
        ELSE IF /\ tokenized_text[token_idx] = token_pair[1]
                /\ tokenized_text[token_idx + 1] = token_pair[2]
             THEN merge(MergeFrequencies(token_pair, token_2_freq_map))
        ELSE WordPieceMergeLoop(token_pair, tokenized_text, token_idx + 1, FALSE,
                                Append(updated, tokenized_text[token_idx]),
                                token_2_freq_map)

\* WordPiece.add_new_token_pair: what it returns or raises, and the frequency
\* map it was given as the call leaves it
WordPiece_add_new_token_pair(token_pair, token_2_freq_map, tokenized_text) ==
    LET finish(loop) ==
            [raised |-> loop.raised,
             returned |->
                 IF loop.raised # NoException THEN None
                 ELSE Some(IF ~loop.skip_token /\ tokenized_text # <<>>
                           THEN Append(loop.updated_tokenized_text,
                                       tokenized_text[Len(tokenized_text)])
                           ELSE loop.updated_tokenized_text),
             token_2_freq_map |-> loop.token_2_freq_map]
    IN  IF \/ punctuation_or_whitespace(token_pair[1])
           \/ punctuation_or_whitespace(token_pair[2])
        THEN [raised |-> NoException, returned |-> Some(tokenized_text),
              token_2_freq_map |-> token_2_freq_map]
        ELSE finish(WordPieceMergeLoop(token_pair, tokenized_text, 1, FALSE, <<>>,
                                       token_2_freq_map))

ContinuationPrefix == <<"#", "#">>

\* the loop of add_prefixes with the test for punctuation and whitespace left
\* out: every token but the first of the text is taken for a subword
RECURSIVE PrefixAllButFirst(_, _, _, _)
PrefixAllButFirst(tokenized_text, i, last_was_punctuation_or_whitespace, prefixed_text) ==
    IF i > Len(tokenized_text) THEN prefixed_text
    ELSE IF last_was_punctuation_or_whitespace
         THEN PrefixAllButFirst(tokenized_text, i + 1, FALSE,
                                Append(prefixed_text, tokenized_text[i]))
         ELSE PrefixAllButFirst(tokenized_text, i + 1, FALSE,
                  Append(prefixed_text, ContinuationPrefix \o tokenized_text[i]))

\* WordPiece.add_prefixes, the for loop from the i-th token on
RECURSIVE PrefixLoop(_, _, _, _)
PrefixLoop(tokenized_text, i, last_was_punctuation_or_whitespace, prefixed_text) ==
    IF i > Len(tokenized_text) THEN prefixed_text
    ELSE IF punctuation_or_whitespace(tokenized_text[i])
         THEN PrefixLoop(tokenized_text, i + 1, TRUE,
                         Append(prefixed_text, tokenized_text[i]))
    ELSE IF last_was_punctuation_or_whitespace
         THEN PrefixLoop(tokenized_text, i + 1, FALSE,
                         Append(prefixed_text, tokenized_text[i]))
         ELSE PrefixLoop(tokenized_text, i + 1, FALSE,
                  Append(prefixed_text, ContinuationPrefix \o tokenized_text[i]))

add_prefixes_to_all_but_first(tokenized_text) ==
    PrefixAllButFirst(tokenized_text, 1, TRUE, <<>>)

\* WordPiece.add_prefixes
add_prefixes(tokenized_text) == PrefixLoop(tokenized_text, 1, TRUE, <<>>)

\* WordPiece.segment, one iteration of the merge loop: the pair found, whether
\* the loop breaks for want of one, and the locals the iteration leaves
MergePass(tokenized_text, token_2_freq_map) ==
    LET added(token_pair, merged) ==
            [raised |-> merged.raised, no_pair |-> FALSE, token_pair |-> token_pair,
             tokenized_text |-> IF merged.raised = NoException
                                THEN The(merged.returned) ELSE tokenized_text,
             token_2_freq_map |-> merged.token_2_freq_map]
        merge(found) ==
            IF found.raised # NoException \/ found.returned = None
            THEN [raised |-> found.raised, no_pair |-> found.raised = NoException,
                  token_pair |-> None, tokenized_text |-> tokenized_text,
                  token_2_freq_map |-> token_2_freq_map]
            ELSE added(found.returned,
                       WordPiece_add_new_token_pair(The(found.returned),
                                                    token_2_freq_map, tokenized_text))
    IN  merge(find_highest_scoring_token_pair(tokenized_text, token_2_freq_map))

\* WordPiece.segment, the merge loop with passes iterations left
RECURSIVE MergePassesLeft(_, _, _)
MergePassesLeft(tokenized_text, token_2_freq_map, passes) ==
    LET next(pass) ==
            IF pass.raised # NoException THEN Raise(pass.raised)
            ELSE IF pass.no_pair THEN Return(Some(tokenized_text))
            ELSE MergePassesLeft(pass.tokenized_text, pass.token_2_freq_map,
                                 passes - 1)
    IN  IF passes <= 0 THEN Return(Some(tokenized_text))
        ELSE next(MergePass(tokenized_text, token_2_freq_map))

\* WordPiece.segment
WordPiece_segment(text, override) ==
    LET prefixed(merged) ==
            IF merged.raised # NoException THEN merged
            ELSE Return(Some(add_prefixes(The(merged.returned))))
    IN  prefixed(MergePassesLeft(ListOf(text), CountTokens(ListOf(text)),
                                 IF override = None THEN The(max_num_merges)
                                 ELSE The(override)))

\* the ids get_id gives the tokens
IdsOf(tokenized_text) ==
    [i \in DOMAIN tokenized_text |-> get_id(tokenized_text[i])]

\* WordPiece.encode: the id of every piece of segment(text); both branches of
\* the test against UNKNOWN_ID append the id get_id returned
WordPiece_encode(text) ==
    LET ids(tokenized_text) ==
            IF tokenized_text.raised # NoException THEN tokenized_text
            ELSE Return(Some(IdsOf(The(tokenized_text.returned))))
    IN  ids(WordPiece_segment(text, None))

\* token.startswith(prefix)
StartsWith(token, prefix) ==
    Len(token) >= Len(prefix) /\ SubSeq(token, 1, Len(prefix)) = prefix

\* WordPiece.decode, the for loop from the i-th token on; decoded_text[-1] of
\* an empty list raises IndexError
RECURSIVE WordPieceDecodeLoop(_, _, _)
WordPieceDecodeLoop(tokens, i, decoded_text) ==
    IF i > Len(tokens) THEN Return(Some(Join(decoded_text)))
    ELSE IF StartsWith(tokens[i], ContinuationPrefix)
         THEN IF decoded_text = <<>> THEN Raise("IndexError")
              ELSE WordPieceDecodeLoop(tokens, i + 1,
                       [decoded_text EXCEPT ![Len(decoded_text)] =
                           @ \o SubSeq(tokens[i], 3, Len(tokens[i]))])
         ELSE WordPieceDecodeLoop(tokens, i + 1, Append(decoded_text, tokens[i]))

\* WordPiece.decode
WordPiece_decode(token_ids) ==
    WordPieceDecodeLoop([i \in DOMAIN token_ids |-> get_token(token_ids[i])], 1, <<>>)

-----------------------------------------------------------------------------
(* Inputs of WordPiece *)

\* WordPiece(max_num_merges = 5) of the tests' setUp
TestMaxNumMerges == 5

\* tokenizer.max_num_merges = 100 of test_encode_decode
LargeMaxNumMerges == 100

LowText ==
    <<"l", "o", "w", " ", "l", "o", "w", "e", "r", " ",
      "l", "o", "w", "e", "s", "t", "!">>

\* texts given to learn, encode and the one-call segment
WordPieceTexts ==
    {<<>>, <<"a">>, <<"a", "a">>, <<"a", "a", "a">>, <<"a", " ", "a">>,
     <<"a", "a", " ", "a">>, <<"a", "b", " ", "a">>, LowText}

\* texts given to the segment that is followed pass by pass
SegmentTexts ==
    SeqsUpTo({"a", "b", " "}, MaxTextLen)
        \cup {LowText, <<"a", "!", "a">>, <<"a", "_", "b">>, <<"a", "#", "b">>,
              <<"#", "#", "a">>, <<"a", "b", " ", "a", "b">>}

WordPieceIdLists == SeqsUpTo({Some(4), Some(6)}, MaxIds)

Overrides == {None} \cup {Some(k) : k \in 0..MaxMerges}

-----------------------------------------------------------------------------
(* A WordPiece and the vocabulary it owns *)

InitWordPiece ==
    /\ cls = "WordPiece"
    /\ max_size = DefaultMaxSize
    /\ EmptyVocabulary
    /\ max_num_merges \in {Some(1), Some(TestMaxNumMerges), Some(LargeMaxNumMerges)}
    /\ frame = None
    /\ call = [op |-> "__init__", arg |-> max_num_merges]
    /\ returned = None
    /\ raised = NoException

\* wp.segment(text) and wp.segment(text, max_num_merges)
Call_WordPiece_segment(text, override) ==
    LET out == WordPiece_segment(text, override)
    IN  /\ call' = [op |-> "segment", arg |-> text, max_num_merges |-> override]
        /\ returned' = out.returned
        /\ raised' = out.raised
        /\ UNCHANGED <<cls, max_size, max_num_merges, frame, vocabVars>>

\* Tokenizer.learn, inherited: self.segment is WordPiece.segment
Call_WordPiece_learn(text) ==
    LET tokenized_text == WordPiece_segment(text, None)
    IN  /\ call' = [op |-> "learn", arg |-> text]
        /\ IF tokenized_text.raised # NoException
           THEN /\ raised' = tokenized_text.raised
                /\ UNCHANGED vocabVars
           ELSE /\ raised' = NoException
                /\ AssignVocabulary(BuiltVocabulary(tokenized_text.returned, max_size))
        /\ returned' = None
        /\ UNCHANGED <<cls, max_size, max_num_merges, frame>>

\* wp.encode(text)
Call_WordPiece_encode(text) ==
    LET out == WordPiece_encode(text)
    IN  /\ call' = [op |-> "encode", arg |-> text]
        /\ returned' = out.returned
        /\ raised' = out.raised
        /\ UNCHANGED <<cls, max_size, max_num_merges, frame, vocabVars>>

\* wp.decode(token_ids)
Call_WordPiece_decode(token_ids) ==
    LET out == WordPiece_decode(token_ids)
    IN  /\ call' = [op |-> "decode", arg |-> token_ids]
        /\ returned' = out.returned
        /\ raised' = out.raised
        /\ UNCHANGED <<cls, max_size, max_num_merges, frame, vocabVars>>

\* wp.decode(wp.encode(text)): decode is given what encode returned
Call_WordPiece_decode_encoded ==
    /\ call.op = "encode"
    /\ raised = NoException
    /\ LET out == WordPiece_decode(The(returned))
       IN  /\ call' = [op |-> "decode", arg |-> The(returned), text |-> call.arg]
           /\ returned' = out.returned
           /\ raised' = out.raised
    /\ UNCHANGED <<cls, max_size, max_num_merges, frame, vocabVars>>

NextWordPiece ==
    \/ \E text \in WordPieceTexts, override \in Overrides :
           Call_WordPiece_segment(text, override)
    \/ \E text \in WordPieceTexts : Call_WordPiece_learn(text)
    \/ \E text \in WordPieceTexts : Call_WordPiece_encode(text)
    \/ \E token_ids \in WordPieceIdLists : Call_WordPiece_decode(token_ids)
    \/ Call_WordPiece_decode_encoded

SpecWordPiece == InitWordPiece /\ [][NextWordPiece]_vars

-----------------------------------------------------------------------------
(* WordPiece.segment followed pass by pass *)

InitWordPieceSegment ==
    /\ cls = "WordPiece"
    /\ max_size = DefaultMaxSize
    /\ EmptyVocabulary
    /\ max_num_merges \in {Some(k) : k \in 0..MaxMerges} \cup {Some(TestMaxNumMerges)}
    /\ frame = None
    /\ call = [op |-> "__init__", arg |-> max_num_merges]
    /\ returned = None
    /\ raised = NoException

\* the call up to the merge loop: the cap is settled, the text is split into
\* characters and their frequencies are counted
WordPiece_segment_enter(text, override) ==
    /\ frame = None
    /\ frame' = Some([text |-> text,
                      max_num_merges |-> IF override = None THEN The(max_num_merges)
                                         ELSE The(override),
                      passes |-> 0,
                      token_pair |-> None,
                      tokenized_text |-> ListOf(text),
                      token_2_freq_map |-> CountTokens(ListOf(text))])
    /\ call' = [op |-> "segment", arg |-> text, max_num_merges |-> override]
    /\ returned' = None
    /\ raised' = NoException
    /\ UNCHANGED <<cls, max_size, max_num_merges, vocabVars>>

\* one iteration of the merge loop that finds a pair: the pair is merged, or
\* the call ends with the exception the iteration raised
WordPiece_segment_pass ==
    /\ frame # None
    /\ The(frame).passes < The(frame).max_num_merges
    /\ LET f == The(frame)
           pass == MergePass(f.tokenized_text, f.token_2_freq_map)
       IN  /\ ~pass.no_pair
           /\ IF pass.raised # NoException
              THEN /\ frame' = None
                   /\ raised' = pass.raised
              ELSE /\ frame' = Some([f EXCEPT !.passes = @ + 1,
                                              !.token_pair = pass.token_pair,
                                              !.tokenized_text = pass.tokenized_text,
                                              !.token_2_freq_map = pass.token_2_freq_map])
                   /\ raised' = raised
    /\ UNCHANGED <<cls, max_size, max_num_merges, vocabVars, call, returned>>

\* the loop ends, its iterations used up or no pair found, and the call
\* returns the pieces with their prefixes
WordPiece_segment_return ==
    /\ frame # None
    /\ LET f == The(frame)
       IN  /\ \/ f.passes >= f.max_num_merges
              \/ MergePass(f.tokenized_text, f.token_2_freq_map).no_pair
           /\ returned' = Some(add_prefixes(f.tokenized_text))
    /\ frame' = None
    /\ raised' = NoException
    /\ UNCHANGED <<cls, max_size, max_num_merges, vocabVars, call>>

NextWordPieceSegment ==
    \/ \E text \in SegmentTexts, override \in Overrides :
           WordPiece_segment_enter(text, override)
    \/ WordPiece_segment_pass
    \/ WordPiece_segment_return

SpecWordPieceSegment == InitWordPieceSegment /\ [][NextWordPieceSegment]_vars

-----------------------------------------------------------------------------
(* Properties of WordPiece *)

\* the ASCII punctuation characters the boundary rule applies to: those of
\* string.punctuation but the underscore, which counts as a word character
BoundaryPunctuation == Range(Punctuation) \ {"_"}

\* a token that is exactly one whitespace or one punctuation character
IsBoundaryToken(token) ==
    Len(token) = 1 /\ (token[1] = " " \/ token[1] \in BoundaryPunctuation)

\* no whitespace or punctuation character anywhere in the token
HasNoBoundaryChar(token) ==
    \A i \in DOMAIN token : token[i] # " " /\ token[i] \notin BoundaryPunctuation

\* a piece that carries the continuation prefix, and a piece without it
IsPrefixed(piece) == Len(piece) > 2 /\ SubSeq(piece, 1, 2) = <<"#", "#">>
Content(piece) == IF IsPrefixed(piece) THEN SubSeq(piece, 3, Len(piece)) ELSE piece

\* the whitespace and punctuation characters of a text, in order, as tokens
RECURSIVE BoundariesOf(_)
BoundariesOf(text) ==
    IF text = <<>> THEN <<>>
    ELSE (IF IsBoundaryToken(<<Head(text)>>) THEN <<<<Head(text)>>>> ELSE <<>>)
             \o BoundariesOf(Tail(text))

\* C13: while WordPiece.segment runs, the working sequence spells the text,
\* every whitespace or punctuation character of the text is a token of its
\* own in it, no other token holds such a character, and neither member of
\* the pair a pass merged is such a token; in what segment returns, every
\* piece is a single unprefixed whitespace or punctuation character or,
\* its prefix aside, holds none, the single-character boundary pieces are
\* those of the text in order, and no prefixed piece is a single whitespace
\* or punctuation character.
C13_BoundaryLaw ==
    /\ frame # None =>
           LET f == The(frame)
           IN  /\ Join(f.tokenized_text) = f.text
               /\ \A i \in DOMAIN f.tokenized_text :
                      \/ IsBoundaryToken(f.tokenized_text[i])
                      \/ HasNoBoundaryChar(f.tokenized_text[i])
               /\ SelectSeq(f.tokenized_text, IsBoundaryToken) = BoundariesOf(f.text)
               /\ f.token_pair # None =>
                      /\ ~IsBoundaryToken(The(f.token_pair)[1])
                      /\ ~IsBoundaryToken(The(f.token_pair)[2])
    /\ (cls = "WordPiece" /\ call.op = "segment" /\ frame = None
            /\ raised = NoException) =>
           LET pieces == The(returned)
           IN  /\ \A i \in DOMAIN pieces :
                      \/ IsBoundaryToken(pieces[i])
                      \/ HasNoBoundaryChar(Content(pieces[i]))
               /\ \A i \in DOMAIN pieces :
                      IsPrefixed(pieces[i]) => ~IsBoundaryToken(Content(pieces[i]))
               /\ SelectSeq(pieces, IsBoundaryToken) = BoundariesOf(call.arg)
               /\ Join([i \in DOMAIN pieces |-> Content(pieces[i])]) = call.arg

\* "low lower lowest!" after two passes: merged pieces, prefixed pieces,
\* the two spaces and the exclamation mark
C13_Witness ==
    /\ cls = "WordPiece"
    /\ call.op = "segment"
    /\ call.arg = LowText
    /\ call.max_num_merges = Some(2)
    /\ frame = None
    /\ raised = NoException
    /\ Len(SelectSeq(The(returned), IsBoundaryToken)) = 3
    /\ \E i \in DOMAIN The(returned) :
           IsPrefixed(The(returned)[i]) /\ Len(Content(The(returned)[i])) = 2


\* no id of the list is the UNK id
EmitsNoUnknown(token_ids) == \A i \in DOMAIN token_ids : token_ids[i] # UNKNOWN_ID

\* C14: on a trained WordPiece, encode returns for every text, decode of ids
\* without an UNK id among them gives the text back, and for the text the
\* tokenizer was just trained on encode emits no UNK id and the round trip
\* gives the text back.
C14_DecodeInvertsEncode ==
    /\ (cls = "WordPiece" /\ Built /\ call.op = "encode") =>
           /\ raised = NoException
           /\ EmitsNoUnknown(The(returned)) =>
                  WordPiece_decode(The(returned)) = Return(Some(call.arg))
    /\ (cls = "WordPiece" /\ call.op = "learn") =>
           /\ raised = NoException
           /\ WordPiece_encode(call.arg).raised = NoException
           /\ EmitsNoUnknown(The(WordPiece_encode(call.arg).returned))
           /\ WordPiece_decode(The(WordPiece_encode(call.arg).returned))
                  = Return(Some(call.arg))

LowSegmentsFiveMerges ==
    <<<<"l", "o", "w">>, <<" ">>, <<"l", "o", "w">>, <<"#", "#", "e", "r">>, <<" ">>,
      <<"l", "o", "w">>, <<"#", "#", "e", "s", "t">>, <<"!">>>>

LowSegmentsAllMerges ==
    <<<<"l", "o", "w">>, <<" ">>, <<"l", "o", "w", "e", "r">>, <<" ">>,
      <<"l", "o", "w", "e", "s", "t">>, <<"!">>>>

\* the vocabulary test_learn expects, in id order from 0
LowVocabulary ==
    <<UNKNOWN_TOKEN, PADDING_TOKEN, BEGIN_OF_SEQ_TOKEN, END_OF_SEQ_TOKEN,
      <<" ">>, <<"!">>, <<"#", "#", "e", "r">>, <<"#", "#", "e", "s", "t">>,
      <<"l", "o", "w">>>>

\* the last call was made on "low lower lowest!" by a WordPiece whose
\* max_num_merges is cap
OnLowText(op, cap) ==
    /\ cls = "WordPiece"
    /\ max_num_merges = Some(cap)
    /\ call.op = op
    /\ IF op = "decode" THEN "text" \in DOMAIN call /\ call.text = LowText
       ELSE call.arg = LowText

\* the vocabulary is the one learn(text) leaves on this tokenizer
TrainedOn(text) ==
    LET tokenized_text == WordPiece_segment(text, None)
    IN  /\ tokenized_text.raised = NoException
        /\ token_2_id_map = BuiltVocabulary(tokenized_text.returned, max_size).token_2_id_map

\* C15 (as stated): WordPiece(max_num_merges = 100) segments
\* "low lower lowest!" as low, ' ', low, ##er, ' ', low, ##est, !, and
\* once trained on that text decode(encode(text)) gives the text back.
C15_LowTextHundredMergesKeepsSuffixes ==
    /\ (OnLowText("segment", LargeMaxNumMerges) /\ call.max_num_merges = None) =>
           /\ raised = NoException
           /\ returned = Some(LowSegmentsFiveMerges)
    /\ (OnLowText("decode", LargeMaxNumMerges) /\ TrainedOn(LowText)) =>
           /\ raised = NoException
           /\ returned = Some(LowText)

\* C15 (amended): WordPiece(max_num_merges = 100) segments
\* "low lower lowest!" as low, ' ', lower, ' ', lowest, !: the merges go on
\* until every word is one piece; once trained on that text,
\* decode(encode(text)) gives the text back.
C15_LowTextHundredMergesWholeWords ==
    /\ (OnLowText("segment", LargeMaxNumMerges) /\ call.max_num_merges = None) =>
           /\ raised = NoException
           /\ returned = Some(LowSegmentsAllMerges)
    /\ (OnLowText("decode", LargeMaxNumMerges) /\ TrainedOn(LowText)) =>
           /\ raised = NoException
           /\ returned = Some(LowText)

\* the round trip of "low lower lowest!" on a WordPiece(100) trained on it
C15_Witness ==
    /\ OnLowText("decode", LargeMaxNumMerges)
    /\ TrainedOn(LowText)
    /\ Len(call.arg) = Len(LowSegmentsAllMerges)
    /\ WordPiece_segment(LowText, None) = Return(Some(LowSegmentsAllMerges))
    /\ returned = Some(LowText)

\* C16: WordPiece(max_num_merges = 5) segments "low lower lowest!" as
\* low, ' ', low, ##er, ' ', low, ##est, !, and learn on it leaves the
\* vocabulary <UNK>, <PAD>, <BOS>, <EOS>, ' ', '!', '##er', '##est', 'low'
\* in id order.
C16_LowTextFiveMerges ==
    /\ (OnLowText("segment", TestMaxNumMerges) /\ call.max_num_merges = None) =>
           /\ raised = NoException
           /\ returned = Some(LowSegmentsFiveMerges)
    /\ OnLowText("learn", TestMaxNumMerges) =>
           /\ raised = NoException
           /\ token_2_id_map = Enumerate(LowVocabulary)
           /\ id_2_token_map = [id \in {Some(i - 1) : i \in DOMAIN LowVocabulary} |->
                                   LowVocabulary[The(id) + 1]]

\* learn on "low lower lowest!" by a WordPiece(5) has left the nine tokens
C16_Witness ==
    /\ OnLowText("learn", TestMaxNumMerges)
    /\ raised = NoException
    /\ VocabLen = Len(LowVocabulary)
    /\ get_id(<<"#", "#", "e", "s", "t">>) = Some(7)

-----------------------------------------------------------------------------
(* Properties of the WordPiece merge loop *)

\* where two tokens that are both no boundary token meet in tokenized_text
AdmissiblePositions(tokenized_text) ==
    {i \in 1..(Len(tokenized_text) - 1) :
        /\ ~IsBoundaryToken(tokenized_text[i])
        /\ ~IsBoundaryToken(tokenized_text[i + 1])}

AdmissiblePairs(tokenized_text) ==
    {PairAt(tokenized_text, i) : i \in AdmissiblePositions(tokenized_text)}

\* count(p) / (freq(p[1]) * freq(p[2])) >= count(q) / (freq(q[1]) * freq(q[2]))
\* for positive frequencies, as a comparison of integers
ScoreAtLeast(tokenized_text, freq, p, q) ==
    Cardinality(Occurrences(tokenized_text, p)) * freq[q[1]] * freq[q[2]]
        >= Cardinality(Occurrences(tokenized_text, q)) * freq[p[1]] * freq[p[2]]

\* the admissible pairs of greatest score
HighestScoringPairs(tokenized_text, freq) ==
    {p \in AdmissiblePairs(tokenized_text) :
        \A q \in AdmissiblePairs(tokenized_text) :
            ScoreAtLeast(tokenized_text, freq, p, q)}

\* of the admissible pairs of greatest score, the one that occurs first
FirstSeenHighestScoringPair(tokenized_text, freq) ==
    CHOOSE p \in HighestScoringPairs(tokenized_text, freq) :
        \A q \in HighestScoringPairs(tokenized_text, freq) :
            FirstOccurrence(tokenized_text, p) <= FirstOccurrence(tokenized_text, q)

\* C21: in every iteration of the merge loop of WordPiece.segment,
\* find_highest_scoring_token_pair returns None exactly when the working
\* sequence has no adjacent pair of two non-boundary tokens, and the loop
\* ends; otherwise the pair it returns is the admissible pair of greatest
\* count(a, b) / (freq(a) * freq(b)) under the frequency map of that
\* moment, and of several pairs of that greatest score the one whose first
\* occurrence is leftmost.
C21_HighestScoringPairFirstSeen ==
    [][frame # None =>
           LET f == The(frame)
               found == find_highest_scoring_token_pair(f.tokenized_text,
                                                        f.token_2_freq_map)
           IN  /\ found.raised = NoException
               /\ (found.returned = None) = (AdmissiblePairs(f.tokenized_text) = {})
               /\ found.returned # None =>
                      found.returned = Some(FirstSeenHighestScoringPair(
                                           f.tokenized_text, f.token_2_freq_map))
               /\ frame' # None => The(frame').token_pair = found.returned
               /\ (f.passes < f.max_num_merges /\ found.returned = None) =>
                      (frame' = None /\ raised' = NoException)]_vars

\* after the first pass over a text in which several admissible pairs share
\* the greatest score, the pair that was merged is the first of them
C21_Witness ==
    /\ frame # None
    /\ The(frame).passes = 1
    /\ LET f == The(frame)
           freq == CountTokens(ListOf(f.text))
       IN  /\ Cardinality(HighestScoringPairs(ListOf(f.text), freq)) > 1
           /\ f.token_pair = Some(FirstSeenHighestScoringPair(ListOf(f.text), freq))

\* how often token occurs in tokenized_text
OccurrencesOfToken(tokenized_text, token) ==
    Cardinality({i \in DOMAIN tokenized_text : tokenized_text[i] = token})

\* C22: while WordPiece.segment runs, after the initial count and after
\* every completed merge pass, the keys of the frequency map are the tokens
\* of the working sequence, each with the number of its occurrences there,
\* so that no key has the count zero.
C22_FrequenciesInSync ==
    frame # None =>
        LET f == The(frame)
        IN  /\ DOMAIN f.token_2_freq_map = Range(f.tokenized_text)
            /\ \A token \in DOMAIN f.token_2_freq_map :
                   /\ f.token_2_freq_map[token]
                          = OccurrencesOfToken(f.tokenized_text, token)
                   /\ f.token_2_freq_map[token] > 0

\* a completed pass that took the last occurrences of one member of its pair
\* and left occurrences of the other: the first has left the map, the
\* other stays with its smaller count beside the merged token
C22_Witness ==
    /\ frame # None
    /\ The(frame).passes >= 1
    /\ LET f == The(frame)
           pair == The(f.token_pair)
       IN  /\ pair[1] \notin DOMAIN f.token_2_freq_map
           /\ pair[2] \in DOMAIN f.token_2_freq_map
           /\ f.token_2_freq_map[pair[1] \o pair[2]] >= 1
           /\ OccurrencesOfToken(ListOf(f.text), pair[2])
                  > f.token_2_freq_map[pair[2]]

\* C23: WordPiece.segment is total: a call never raises, whatever the text
\* and the cap, texts whose selected pair has two equal members included; it
\* makes no more passes than the cap allows and, once it has ended, it has
\* returned a list of tokens.
C23_SegmentIsTotal ==
    (cls = "WordPiece" /\ call.op = "segment") =>
        /\ raised = NoException
        /\ frame # None => The(frame).passes <= The(frame).max_num_merges
        /\ frame = None =>
               /\ returned # None
               /\ \A i \in DOMAIN The(returned) : Len(The(returned)[i]) >= 1

-----------------------------------------------------------------------------
(* Properties of WordPiece.decode *)

\* a token without the continuation prefix it may start with
WithoutContinuationPrefix(token) ==
    IF Len(token) >= 2 /\ token[1] = "#" /\ token[2] = "#"
    THEN SubSeq(token, 3, Len(token)) ELSE token

\* C24: WordPiece.decode is total over id sequences: for the empty list, for
\* ids the vocabulary does not hold and for lists that begin with the id of a
\* token with the continuation prefix alike, it raises nothing and returns
\* a string, the tokens of the ids joined in order, each continuation piece
\* without its prefix.
C24_DecodeIsTotal ==
    (cls = "WordPiece" /\ call.op = "decode") =>
        /\ raised = NoException
        /\ returned = Some(Join([i \in DOMAIN call.arg |->
                           WithoutContinuationPrefix(get_token(call.arg[i]))]))

-----------------------------------------------------------------------------
(* Text preservation under merging *)

\* a merge pass of BytePairEncoding over a sequence a pair was found in
\* returns a sequence that spells the same text
BytePairEncodingPassSpellsText ==
    (cls = "BytePairEncoding" /\ call.op = "add_new_token_pair"
            /\ call.arg # <<>>) =>
        /\ raised = NoException
        /\ Join(The(returned)) = Join(call.arg)

\* what BytePairEncoding.segment returns spells the text
BytePairEncodingSegmentSpellsText ==
    (cls = "BytePairEncoding" /\ call.op = "segment") =>
        /\ raised = NoException
        /\ returned # None
        /\ Join(The(returned)) = call.arg

\* the working sequence of WordPiece.segment spells the text at entry and
\* after every pass, and so do the pieces it returns, prefixes aside
WordPieceSpellsText ==
    /\ frame # None => Join(The(frame).tokenized_text) = The(frame).text
    /\ (cls = "WordPiece" /\ call.op = "segment" /\ frame = None
            /\ raised = NoException) =>
           Join([i \in DOMAIN The(returned) |->
                    WithoutContinuationPrefix(The(returned)[i])]) = call.arg

\* C25: merging preserves the text. For BytePairEncoding and for WordPiece,
\* the working sequence spells the input text after initialization and
\* after every merge pass; hence the tokens BytePairEncoding.segment
\* returns join to the text, and the pieces WordPiece.segment returns,
\* continuation prefixes removed, join to the text.
C25_MergingPreservesText ==
    /\ BytePairEncodingPassSpellsText
    /\ BytePairEncodingSegmentSpellsText
    /\ WordPieceSpellsText

====
